---- MODULE Spec2Model ----
(***************************************************************************)
(* A model of dtb.py (DumpToBlender): the recursive descent Parser, the    *)
(* loads() scope loop with Context.propagate, and BlenderCreator.create.   *)
(* Text is a sequence of one-character strings; a Python float is an exact *)
(* rational [n, d] in lowest terms with d > 0.                             *)
(* A value that is used more than once is bound with \E r \in {e} or     *)
(* passed to a helper operator, so that it is computed once.               *)
(***************************************************************************)
EXTENDS Integers, Sequences, FiniteSets, TLC

VARIABLES
    parser,     \* the Parser object: source, pos, line_pos, line, col
    ret,        \* the last call of a Parser method and what it returned
    stack,      \* loads: the open scopes, each with the position recorded
    context,    \* loads: the current Context
    ctxs,       \* the Context objects, by number
    nprims,     \* the primitives constructed so far
    pc,         \* where the program is
    err,        \* the exception that ended loads
    objs,       \* the Blender objects created, in creation order
    frames,     \* BlenderCreator.create: the active calls
    mesh        \* BlenderCreator: verts, edges, faces of the mesh in the making

vars == <<parser, ret, stack, context, ctxs, nprims, pc, err, objs, frames, mesh>>

(***************************************************************************)
(* Bounds of the model.                                                    *)
(***************************************************************************)
MaxSrcLen == 3

MaxToks == 3

MaxDim == 3

MaxBraceLen == 6

MaxScopeLen == 5

MaxMiscLen == 2

MaxSize == 3

MaxNestLen == 5

MaxClips == 2

(***************************************************************************)
(* Character classes of Python's re module, over the characters in use.    *)
(***************************************************************************)
Digits == <<"0", "1", "2", "3", "4", "5", "6", "7", "8", "9">>

IsDigit(c) == \E i \in 1..10 : Digits[i] = c

DigitVal(c) == (CHOOSE i \in 1..10 : Digits[i] = c) - 1

IsSpace(c) == c \in {" ", "\t", "\n", "\r", "\f"}

Letters == {"a", "b", "c", "d", "e", "f", "g", "h", "i", "j", "k", "l", "m",
            "n", "o", "p", "q", "r", "s", "t", "u", "v", "w", "x", "y", "z",
            "E", "_"}

IsWord(c) == IsDigit(c) \/ c \in Letters

IsSign(c) == c \in {"+", "-"}

\* source[p:] has a character at 0-based offset p
Has(s, p) == p < Len(s)

At(s, p) == s[p + 1]

\* s[a:b] of Python, 0-based and end-exclusive
Slice(s, a, b) == IF b <= a THEN << >> ELSE SubSeq(s, a + 1, b)

\* membership of a character in a character class of the patterns
InClass(cls, c) ==
    CASE cls = "space"      -> IsSpace(c)
      [] cls = "digit"      -> IsDigit(c)
      [] cls = "word"       -> IsWord(c)
      [] cls = "blank"      -> c = " "
      [] cls = "notnewline" -> c # "\n"
      [] cls = "notquote"   -> c # "'"

\* the offset just after the longest run of characters of a class from p
RECURSIVE RunEnd(_, _, _)
RunEnd(s, p, cls) ==
    IF Has(s, p) /\ InClass(cls, At(s, p)) THEN RunEnd(s, p + 1, cls) ELSE p

(***************************************************************************)
(* The token patterns.  Each operator gives the offset just after the      *)
(* match of the pattern at offset p, or -1 when the pattern does not match.*)
(***************************************************************************)
\* WHITESPACE_OR_COMMENT = (\s+)|(#.*$) with re.MULTILINE
WHITESPACE_OR_COMMENT(s, p) ==
    IF ~Has(s, p) THEN -1
    ELSE IF IsSpace(At(s, p)) THEN RunEnd(s, p, "space")
    ELSE IF At(s, p) = "#" THEN RunEnd(s, p + 1, "notnewline")
    ELSE -1

LPAREN(s, p) == IF Has(s, p) /\ At(s, p) = "(" THEN p + 1 ELSE -1

RPAREN(s, p) == IF Has(s, p) /\ At(s, p) = ")" THEN p + 1 ELSE -1

\* STRING = '[^']*'
STRING_RE(s, p) ==
    IF Has(s, p) /\ At(s, p) = "'"
    THEN LET q == RunEnd(s, p + 1, "notquote")
         IN  IF Has(s, q) THEN q + 1 ELSE -1
    ELSE -1

\* IDENT = \w+|{|}
IDENT(s, p) ==
    IF ~Has(s, p) THEN -1
    ELSE IF IsWord(At(s, p)) THEN RunEnd(s, p, "word")
    ELSE IF At(s, p) \in {"{", "}"} THEN p + 1
    ELSE -1

\* FloatBody with a digit required behind the dot: \d+(\.\d+)?|\.\d+
FloatBodyDigitAfterDot(s, p) ==
    IF Has(s, p) /\ IsDigit(At(s, p))
    THEN IF Has(s, RunEnd(s, p, "digit")) /\ At(s, RunEnd(s, p, "digit")) = "."
            /\ Has(s, RunEnd(s, p, "digit") + 1)
            /\ IsDigit(At(s, RunEnd(s, p, "digit") + 1))
         THEN RunEnd(s, RunEnd(s, p, "digit") + 1, "digit")
         ELSE RunEnd(s, p, "digit")
    ELSE IF Has(s, p) /\ At(s, p) = "." /\ Has(s, p + 1) /\ IsDigit(At(s, p + 1))
    THEN RunEnd(s, p + 1, "digit")
    ELSE -1

\* (\d+(\.\d*)?|\.\d+) at p
FloatBody(s, p) ==
    IF Has(s, p) /\ IsDigit(At(s, p))
    THEN LET q == RunEnd(s, p, "digit")
         IN  IF Has(s, q) /\ At(s, q) = "." THEN RunEnd(s, q + 1, "digit")
             ELSE q
    ELSE IF Has(s, p) /\ At(s, p) = "." /\ Has(s, p + 1) /\ IsDigit(At(s, p + 1))
    THEN RunEnd(s, p + 1, "digit")
    ELSE -1

\* ([eE][+-]?\d+)? at p: the exponent is taken only when it is complete
FloatExp(s, p) ==
    IF Has(s, p) /\ At(s, p) \in {"e", "E"}
    THEN LET q == IF Has(s, p + 1) /\ IsSign(At(s, p + 1)) THEN p + 2 ELSE p + 1
         IN  IF Has(s, q) /\ IsDigit(At(s, q)) THEN RunEnd(s, q, "digit") ELSE p
    ELSE p

\* FLOAT = [+-]?\ *(\d+(\.\d*)?|\.\d+)([eE][+-]?\d+)?
FLOAT(s, p) ==
    LET a == IF Has(s, p) /\ IsSign(At(s, p)) THEN p + 1 ELSE p
        b == RunEnd(s, a, "blank")
        c == FloatBody(s, b)
    IN  IF c = -1 THEN -1 ELSE FloatExp(s, c)

Match(pattern, s, p) ==
    CASE pattern = "LPAREN" -> LPAREN(s, p)
      [] pattern = "RPAREN" -> RPAREN(s, p)
      [] pattern = "STRING" -> STRING_RE(s, p)
      [] pattern = "FLOAT"  -> FLOAT(s, p)
      [] pattern = "IDENT"  -> IDENT(s, p)

\* match.group('value') if the pattern has one, else match.group(0)
Group(pattern, s, p, q) ==
    IF pattern = "STRING" THEN Slice(s, p + 1, q - 1) ELSE Slice(s, p, q)

(***************************************************************************)
(* Python floats as exact rationals, and float(str).                       *)
(***************************************************************************)
Abs(x) == IF x < 0 THEN -x ELSE x

RECURSIVE GCD(_, _)
GCD(a, b) == IF b = 0 THEN a ELSE GCD(b, a % b)

Rat(n, d) ==
    LET g == GCD(Abs(n), Abs(d))
        sg == IF d < 0 THEN -1 ELSE 1
    IN  [n |-> sg * (n \div g), d |-> sg * (d \div g)]

R(i) == [n |-> i, d |-> 1]

RAdd(x, y) == Rat(x.n * y.d + y.n * x.d, x.d * y.d)

RNeg(x) == [n |-> -x.n, d |-> x.d]

RSub(x, y) == RAdd(x, RNeg(y))

RMul(x, y) == Rat(x.n * y.n, x.d * y.d)

RDiv(x, y) == Rat(x.n * y.d, x.d * y.n)

RLess(x, y) == x.n * y.d < y.n * x.d

RLeq(x, y) == x.n * y.d <= y.n * x.d

RAbs(x) == [n |-> Abs(x.n), d |-> x.d]

RECURSIVE Pow10(_)
Pow10(k) == IF k = 0 THEN 1 ELSE 10 * Pow10(k - 1)

\* int() of a run of decimal digits
RECURSIVE DigitsVal(_)
DigitsVal(ds) ==
    IF ds = << >> THEN 0
    ELSE 10 * DigitsVal(SubSeq(ds, 1, Len(ds) - 1)) + DigitVal(ds[Len(ds)])

\* str.strip(): the text without its leading and trailing whitespace
RECURSIVE StripEnd(_)
StripEnd(t) ==
    IF t # << >> /\ IsSpace(t[Len(t)]) THEN StripEnd(SubSeq(t, 1, Len(t) - 1))
    ELSE t

Strip(t) == StripEnd(Slice(t, RunEnd(t, 0, "space"), Len(t)))

\* float(text): whitespace is stripped around the number only, so a sign
\* that is followed by blanks is not a float literal (ValueError)
PyFloat(text) ==
    LET t  == Strip(text)
        a  == IF Has(t, 0) /\ IsSign(At(t, 0)) THEN 1 ELSE 0
        b  == FloatBody(t, a)
        e  == IF b = -1 THEN -1 ELSE FloatExp(t, b)
        i1 == RunEnd(t, a, "digit")
        dot == Has(t, i1) /\ At(t, i1) = "."
        f1 == IF dot THEN RunEnd(t, i1 + 1, "digit") ELSE i1
        fr == IF dot THEN Slice(t, i1 + 1, f1) ELSE << >>
        m  == DigitsVal(Slice(t, a, i1) \o fr)
        es == IF e > b /\ IsSign(At(t, b + 1)) THEN b + 2 ELSE b + 1
        ex == IF e > b
              THEN (IF At(t, b + 1) = "-" THEN -1 ELSE 1) * DigitsVal(Slice(t, es, e))
              ELSE 0
        k  == ex - Len(fr)
        sg == IF a = 1 /\ At(t, 0) = "-" THEN -1 ELSE 1
    IN  IF b = -1 \/ e # Len(t) THEN [ok |-> FALSE]
        ELSE [ok |-> TRUE,
              value |-> IF k >= 0 THEN Rat(sg * m * Pow10(k), 1)
                        ELSE Rat(sg * m, Pow10(-k))]

(***************************************************************************)
(* class Parser.  A parser object is [source, pos, line_pos, line, col].   *)
(***************************************************************************)
\* str.find(c, a, b): the lowest offset in [a, b) that holds c, or -1
Find(s, c, a, b) ==
    LET I == {i \in a..(b - 1) : Has(s, i) /\ At(s, i) = c}
    IN  IF I = {} THEN -1 ELSE CHOOSE i \in I : \A j \in I : i <= j

at_end(P) == P.pos >= Len(P.source)

\* the while-loop of advance(): one line per newline before pos
\* AdvanceLines with "if" for "while": one newline is counted per call
AdvanceOneLine(P) ==
    IF Find(P.source, "\n", P.line_pos, P.pos) = -1 THEN P
    ELSE [P EXCEPT !.line_pos = Find(P.source, "\n", P.line_pos, P.pos) + 1,
                   !.line = @ + 1]

RECURSIVE AdvanceLines(_)
AdvanceLines(P) ==
    IF Find(P.source, "\n", P.line_pos, P.pos) = -1 THEN P
    ELSE AdvanceLines([P EXCEPT
             !.line_pos = Find(P.source, "\n", P.line_pos, P.pos) + 1,
             !.line = @ + 1])

\* self.col = self.pos - self.line_pos + 1
SetCol(P) == [P EXCEPT !.col = P.pos - P.line_pos + 1]

advance(P, num) == SetCol(AdvanceLines([P EXCEPT !.pos = @ + num]))

\* skip_whitespace_and_comments with "if" for "while": one match is skipped
SkipOneMatch(P) ==
    IF WHITESPACE_OR_COMMENT(P.source, P.pos) = -1 THEN P
    ELSE advance(P, WHITESPACE_OR_COMMENT(P.source, P.pos) - P.pos)

RECURSIVE skip_whitespace_and_comments(_)
skip_whitespace_and_comments(P) ==
    IF WHITESPACE_OR_COMMENT(P.source, P.pos) = -1 THEN P
    ELSE skip_whitespace_and_comments(
             advance(P, WHITESPACE_OR_COMMENT(P.source, P.pos) - P.pos))

\* Parser.__init__
NewParser(source) ==
    skip_whitespace_and_comments(
        [source |-> source, pos |-> 0, line_pos |-> 0, line |-> 1, col |-> 1])

\* error(): raises ParserError carrying the tracked line and column
error(P, message) ==
    [P |-> P, out |-> "ParserError", none |-> TRUE, value |-> << >>,
     line |-> P.line, col |-> P.col, message |-> message]

Ok(P, value) ==
    [P |-> P, out |-> "ok", none |-> FALSE, value |-> value,
     line |-> 0, col |-> 0, message |-> ""]

\* a return of None
None(P) == [Ok(P, << >>) EXCEPT !.none = TRUE]

\* the rest of accept() once re.match has answered: q is match.end(), or -1
Matched(P, pattern, q) ==
    IF q = -1 THEN None(P)
    ELSE Ok(skip_whitespace_and_comments(advance(P, q - P.pos)),
            Group(pattern, P.source, P.pos, q))

\* accept(): None when the pattern does not match at the cursor
accept(P, pattern) == Matched(P, pattern, Match(pattern, P.source, P.pos))

\* if result is None: self.error(...)
OrError(P, r, description) == IF r.none THEN error(P, description) ELSE r

expect(P, pattern, description) == OrError(P, accept(P, pattern), description)

expect_ident(P) == expect(P, "IDENT", "expected an identifier")

\* if not value in options: self.error(...)
InOptions(r, options) ==
    IF r.out = "ok" /\ r.value \notin options THEN error(r.P, "is not one of")
    ELSE r

expect_enum(P, options) == InOptions(expect(P, "IDENT", "expected one of"), options)

expect_string(P) == expect(P, "STRING", "expected a string")

\* float(...) of the matched text: f is what PyFloat made of it
Converted(r, f) ==
    IF f.ok THEN Ok(r.P, f.value)
    ELSE [r EXCEPT !.out = "ValueError", !.none = TRUE, !.value = << >>]

ToFloat(r) == IF r.out # "ok" THEN r ELSE Converted(r, PyFloat(r.value))

expect_float(P) == ToFloat(expect(P, "FLOAT", "expected a floating point number"))

\* [self.expect_float() for _ in range(dim)], stopping at the first failure
RECURSIVE Floats(_, _, _)
RECURSIVE MoreFloats(_, _, _)
Floats(P, dim, acc) ==
    IF dim = 0 THEN Ok(P, acc) ELSE MoreFloats(expect_float(P), dim, acc)

MoreFloats(r, dim, acc) ==
    IF r.out # "ok" THEN r ELSE Floats(r.P, dim - 1, Append(acc, r.value))

\* two steps in a row: the second counts only if the first did not raise
Then(a, b) == IF a.out # "ok" THEN a ELSE b

\* the end of expect_vector: the ")" is required only after a "("
CloseVector(paren, vector) ==
    IF vector.out # "ok" \/ paren.none THEN vector
    ELSE Then(expect(vector.P, "RPAREN", "expected )"),
              Ok(accept(vector.P, "RPAREN").P, vector.value))

VectorAfter(paren, dim) == CloseVector(paren, Floats(paren.P, dim, << >>))

expect_vector(P, dim) == VectorAfter(accept(P, "LPAREN"), dim)

(***************************************************************************)
(* Calls of the Parser methods on a parser object, as the unit tests make  *)
(* them: any method, any number of times, on a bounded source text.        *)
(***************************************************************************)
Alphabet == {"1", ".", "-", " ", "\n", "(", ")", "e"}

Tokens == {<<"(">>, <<")">>, <<"1", " ">>, <<"-", "2", " ">>, <<".", "5">>,
           <<"+", " ", "2">>, <<"#", "x", "\n">>}

\* the texts the unit tests of the parser use
TestSources == {
    <<"a", "b", "c">>,
    <<"a", "b", "c", "#", "c", "o", "m", "m", "e", "n", "t">>,
    <<"'", "a", "b", "c", "'", "#", "c", "o", "m", "m", "e", "n", "t">>,
    <<"1", ".", "0", "e", "-", "6">>,
    <<"1", ".", "0", "E", "+", "6">>,
    <<"1", "2", "3", "4", " ", "5", "6", "7", "8">>,
    <<"1", "2", "3", ".", ".", "4", "5", "6">>,
    <<"+", "+", "1", "2", "3", "4">>,
    <<"-", ".", "0", "0", "1">>,
    <<"(", "0", " ", "0", " ", "1", ")", "#", "c", "o", "m", "m", "e", "n", "t">>,
    <<"(", "0", " ", "0", " ", "1">>,
    <<"0", " ", "x", " ", "y">>,
    <<"0", " ", "1">>,
    <<"\n", "\n", "\n", "#", "c", "o", "m", "m", "e", "n", "t", "\n", "a", "b", "c">>,
    <<"x", "y", "z", "\n", "a", "b", "c", "d", "e", "f">> }

RECURSIVE Flatten(_)
Flatten(ss) == IF ss = << >> THEN << >> ELSE Head(ss) \o Flatten(Tail(ss))

Strings(alphabet, n) == UNION {[1..k -> alphabet] : k \in 0..n}

\* the exponent has one digit, so that every value fits the integers of the model
ShortExponent(s) ==
    \A p \in 1..Len(s) :
        (s[p] = "e" /\ p + 2 <= Len(s)) => ~(IsDigit(s[p + 1]) /\ IsDigit(s[p + 2]))

ParserSources ==
    {s \in Strings(Alphabet, MaxSrcLen) : ShortExponent(s)}
        \cup {Flatten(ts) : ts \in Strings(Tokens, MaxToks)}
        \cup TestSources

NoCall == [op |-> "none", arg |-> 0, before |-> NewParser(<< >>),
           res |-> None(NewParser(<< >>))]

Idle ==
    /\ stack = << >> /\ context = 0 /\ ctxs = << >> /\ nprims = 0
    /\ err = [out |-> "ok", line |-> 0, col |-> 0, message |-> "",
              from_line |-> 0, from_col |-> 0]
    /\ objs = << >> /\ frames = << >> /\ mesh = << >>

InitParser ==
    /\ \E source \in ParserSources : parser = NewParser(source)
    /\ ret = NoCall
    /\ pc = "parser"
    /\ Idle

Call(op, arg, res) ==
    /\ pc = "parser"
    /\ ret' = [op |-> op, arg |-> arg, before |-> parser, res |-> res]
    /\ parser' = res.P
    /\ UNCHANGED <<stack, context, ctxs, nprims, pc, err, objs, frames, mesh>>

CallAccept ==
    \E pattern \in {"LPAREN", "RPAREN", "STRING", "FLOAT", "IDENT"} :
        Call("accept", pattern, accept(parser, pattern))

CallExpectIdent == Call("expect_ident", 0, expect_ident(parser))

CallExpectString == Call("expect_string", 0, expect_string(parser))

CallExpectEnum ==
    Call("expect_enum", 0, expect_enum(parser, {<<"e">>, <<"abc">>}))

CallExpectFloat == Call("expect_float", 0, expect_float(parser))

CallExpectVector ==
    \E dim \in 1..MaxDim : Call("expect_vector", dim, expect_vector(parser, dim))

NextParser ==
    \/ CallAccept
    \/ CallExpectIdent
    \/ CallExpectString
    \/ CallExpectEnum
    \/ CallExpectFloat
    \/ CallExpectVector

SpecParser == InitParser /\ [][NextParser]_vars

(***************************************************************************)
(* class Context and Context.propagate.  Contexts are numbered in creation *)
(* order, the root is 1, and parent = 0 is None.                           *)
(***************************************************************************)
NewContext(parent) ==
    [label |-> << >>, style |-> << >>, primitives |-> << >>,
     clip_planes |-> << >>, parent |-> parent, children |-> << >>]

\* new_child that hangs the new context under the root
new_child_of_root(cs, self) ==
    Append([cs EXCEPT ![1].children = Append(@, Len(cs) + 1)], NewContext(1))

\* new_child(): the contexts after self got a new last child
new_child(cs, self) ==
    Append([cs EXCEPT ![self].children = Append(@, Len(cs) + 1)],
           NewContext(self))

\* style[key] = value
SetStyle(style, key, value) ==
    [k \in DOMAIN style \cup {key} |-> IF k = key THEN value ELSE style[k]]

\* Inherit that overwrites what the child has set
InheritParentWins(child, parent) ==
    [k \in DOMAIN child \cup DOMAIN parent |->
        IF k \in DOMAIN parent THEN parent[k] ELSE child[k]]

\* the loop over self.style.items() in propagate: only unset keys are filled
Inherit(child, parent) ==
    [k \in DOMAIN child \cup DOMAIN parent |->
        IF k \in DOMAIN child THEN child[k] ELSE parent[k]]

\* propagate that fills the children and does not go on into them
RECURSIVE propagate_children_only(_, _, _)
propagate_children_only(cs, self, i) ==
    IF i > Len(cs[self].children) THEN cs
    ELSE propagate_children_only(
             [cs EXCEPT
                 ![cs[self].children[i]].style = Inherit(@, cs[self].style),
                 ![cs[self].children[i]].clip_planes = @ \o cs[self].clip_planes],
             self, i + 1)

\* propagate(), from the i-th child of self on
RECURSIVE propagate(_, _, _)
propagate(cs, self, i) ==
    IF i > Len(cs[self].children) THEN cs
    ELSE LET child == cs[self].children[i]
             filled == [cs EXCEPT
                          ![child].style = Inherit(@, cs[self].style),
                          ![child].clip_planes = @ \o cs[self].clip_planes]
         IN  propagate(propagate(filled, child, 1), self, i + 1)

(***************************************************************************)
(* The keywords, and the documents loads is run on.                        *)
(***************************************************************************)
KW_label == <<"l", "a", "b", "e", "l">>

KW_point_size == <<"p", "o", "i", "n", "t", "_", "s", "i", "z", "e">>

KW_plane_size == <<"p", "l", "a", "n", "e", "_", "s", "i", "z", "e">>

KW_clip_side == <<"c", "l", "i", "p", "_", "s", "i", "d", "e">>

KW_clip_plane == <<"c", "l", "i", "p", "_", "p", "l", "a", "n", "e">>

KW_point == <<"p", "o", "i", "n", "t">>

KW_line == <<"l", "i", "n", "e">>

KW_vector == <<"v", "e", "c", "t", "o", "r">>

KW_plane == <<"p", "l", "a", "n", "e">>

KW_aabb == <<"a", "a", "b", "b">>

KW_projection == <<"p", "r", "o", "j", "e", "c", "t", "i", "o", "n">>

KW_positive == <<"p", "o", "s", "i", "t", "i", "v", "e">>

KW_negative == <<"n", "e", "g", "a", "t", "i", "v", "e">>

\* the names n for which the module defines a function _parse_n
Handlers == {KW_label, KW_point_size, KW_plane_size, KW_clip_side,
             KW_clip_plane, KW_point, KW_line, KW_vector, KW_plane, KW_aabb,
             KW_projection}

BracePieces == {
    <<"{">>,
    <<"}">>,
    <<"#", "}", "\n", "p", "l", "a", "n", "e", "_", "s", "i", "z", "e", " ", "3", "\n">> }

ScopePieces == {
    <<"{">>,
    <<"}">>,
    <<"p", "o", "i", "n", "t", "_", "s", "i", "z", "e", " ", "1", " ", "c", "l", "i", "p", "_", "p", "l", "a", "n", "e", " ", "(", "1", " ", "0", " ", "0", ")", " ", "1", " ">>,
    <<"p", "o", "i", "n", "t", "_", "s", "i", "z", "e", " ", "2", " ", "c", "l", "i", "p", "_", "p", "l", "a", "n", "e", " ", "0", " ", "1", " ", "0", " ", "2", "\n">> }

MiscPieces == {
    <<"{", "\n">>,
    <<"}">>,
    <<"l", "a", "b", "e", "l", " ", "'", "a", "'", " ">>,
    <<"p", "o", "i", "n", "t", "_", "s", "i", "z", "e", " ", ".", "5", " ">>,
    <<"p", "l", "a", "n", "e", "_", "s", "i", "z", "e", " ", "2", " ">>,
    <<"c", "l", "i", "p", "_", "s", "i", "d", "e", " ", "p", "o", "s", "i", "t", "i", "v", "e", " ">>,
    <<"c", "l", "i", "p", "_", "s", "i", "d", "e", " ", "u", "p", " ">>,
    <<"c", "l", "i", "p", "_", "p", "l", "a", "n", "e", " ", "(", "0", " ", "0", " ", "1", ")", " ", "1", " ">>,
    <<"p", "o", "i", "n", "t", " ", "(", "1", " ", "0", " ", "0", ")", " ">>,
    <<"p", "o", "i", "n", "t", " ", "-", " ", "1", " ", "0", " ", "0", " ">>,
    <<"p", "o", "i", "n", "t", " ", "(", "1", " ", "0", " ", "0", " ">>,
    <<"l", "i", "n", "e", " ", "0", " ", "0", " ", "0", " ", "(", "2", " ", "0", " ", "0", ")", " ">>,
    <<"v", "e", "c", "t", "o", "r", " ", "(", "0", " ", "0", " ", "0", ")", " ", "0", " ", "2", " ", "0", " ">>,
    <<"p", "l", "a", "n", "e", " ", "(", "0", " ", "0", " ", "1", ")", " ", "0", " ">>,
    <<"a", "a", "b", "b", " ", "0", " ", "0", " ", "0", " ", "2", " ", "2", " ", "2", " ">>,
    <<"p", "r", "o", "j", "e", "c", "t", "i", "o", "n", " ", "1", " ", "0", " ", "0", " ", "0", " ", "1", " ", "0", " ", "0", " ", "0", " ", "1", " ", "0", " ", "0", " ", "0", " ", "1", " ", "0", " ", "0", " ", "0", " ">>,
    <<"b", "o", "g", "u", "s", " ">>,
    <<"$">> }

BraceDocs == {Flatten(ps) : ps \in Strings(BracePieces, MaxBraceLen)}

\* styles set after the scopes that inherit them
DocLateStyle ==
    <<"{", "{", "}", "p", "o", "i", "n", "t", "_", "s", "i", "z", "e", " ", "2", " ", "c", "l", "i", "p", "_", "p", "l", "a", "n", "e", " ", "0", " ", "1", " ", "0", " ", "2", "\n", "}", "p", "o", "i", "n", "t", "_", "s", "i", "z", "e", " ", "1", " ", "c", "l", "i", "p", "_", "p", "l", "a", "n", "e", " ", "(", "1", " ", "0", " ", "0", ")", " ", "1", " ">>

\* clip planes declared at three depths, one of them twice
DocDeepClip ==
    <<"c", "l", "i", "p", "_", "p", "l", "a", "n", "e", " ", "(", "1", " ", "0", " ", "0", ")", " ", "1", " ", "{", "\n", " ", "c", "l", "i", "p", "_", "p", "l", "a", "n", "e", " ", "(", "0", " ", "1", " ", "0", ")", " ", "2", " ", "c", "l", "i", "p", "_", "p", "l", "a", "n", "e", " ", "(", "0", " ", "1", " ", "0", ")", " ", "2", " ", "{", "\n", " ", " ", "c", "l", "i", "p", "_", "p", "l", "a", "n", "e", " ", "(", "0", " ", "0", " ", "1", ")", " ", "3", " ", "}", "\n", "}", "\n">>

ScopeDocs ==
    {DocLateStyle, DocDeepClip}
        \cup {Flatten(ps) : ps \in Strings(ScopePieces, MaxScopeLen)}

MiscDocs == {Flatten(ps) : ps \in Strings(MiscPieces, MaxMiscLen)}

(***************************************************************************)
(* loads(): one action for each way a turn of the while-loop can go, and   *)
(* for the two ways it ends.                                               *)
(***************************************************************************)
NoError == [out |-> "ok", line |-> 0, col |-> 0, message |-> "",
            from_line |-> 0, from_col |-> 0]

\* the exception of a failed Parser call
Raised(r) == [out |-> r.out, line |-> r.line, col |-> r.col,
              message |-> r.message, from_line |-> 0, from_col |-> 0]

\* loads() up to the while-loop, on the given documents
InitOn(docs) ==
    /\ \E source \in docs :
           parser = skip_whitespace_and_comments(NewParser(source))
    /\ ret = NoCall
    /\ stack = << >>
    /\ ctxs = <<NewContext(0)>>
    /\ context = 1
    /\ nprims = 0
    /\ pc = "loads"
    /\ err = NoError
    /\ objs = << >> /\ frames = << >> /\ mesh = << >>

LoadsFrame == <<ret, objs, frames, mesh>>

InLoop == pc = "loads" /\ ~at_end(parser)

\* token = parser.expect_ident()
token == {expect_ident(parser)}

Fail(r) ==
    /\ pc' = "error"
    /\ err' = Raised(r)
    /\ parser' = r.P
    /\ UNCHANGED <<stack, context, ctxs, nprims, LoadsFrame>>

\* token = parser.expect_ident() raises
NoIdent ==
    /\ InLoop
    /\ \E tok \in token :
        /\ tok.out # "ok"
        /\ Fail(tok)

OpenBrace ==
    /\ InLoop
    /\ \E tok \in token :
        /\ tok.out = "ok" /\ tok.value = <<"{">>
        /\ stack' = Append(stack, [context |-> context, line |-> tok.P.line,
                                   col |-> tok.P.col])
        /\ ctxs' = new_child(ctxs, context)
        /\ context' = Len(ctxs) + 1
        /\ parser' = tok.P
        /\ UNCHANGED <<nprims, pc, err, LoadsFrame>>

CloseBrace ==
    /\ InLoop
    /\ \E tok \in token :
        /\ tok.out = "ok" /\ tok.value = <<"}">>
        /\ IF stack = << >>
           THEN Fail(error(tok.P, "unbalanced }"))
           ELSE /\ context' = stack[Len(stack)].context
                /\ stack' = SubSeq(stack, 1, Len(stack) - 1)
                /\ parser' = tok.P
                /\ UNCHANGED <<ctxs, nprims, pc, err, LoadsFrame>>

UnknownPrimitive ==
    /\ InLoop
    /\ \E tok \in token :
        /\ tok.out = "ok"
        /\ tok.value \notin Handlers \cup {<<"{">>, <<"}">>}
        /\ Fail(error(tok.P, "unknown primitive"))

\* the token is the keyword kw, and args is what func(parser, context)
\* parsed for it: it raises, or leaves the contexts cs and n primitives
Dispatched(tok, kw) == tok.out = "ok" /\ tok.value = kw

Handled(r, cs, n) ==
    IF r.out # "ok" THEN Fail(r)
    ELSE /\ ctxs' = cs
         /\ nprims' = n
         /\ parser' = r.P
         /\ UNCHANGED <<stack, context, pc, err, LoadsFrame>>

\* a primitive object; id tells two objects of equal value apart
Primitive(kind, a, b) ==
    [id |-> nprims + 1, kind |-> kind, context |-> context, a |-> a, b |-> b]

add_primitive(primitive) ==
    [ctxs EXCEPT ![context].primitives = Append(@, primitive)]

add_clip_plane(clip_plane) ==
    [ctxs EXCEPT ![context].clip_planes = Append(@, clip_plane)]

\* a second argument, parsed where the first one ended
Second(first, dim) ==
    IF first.out # "ok" THEN {first}
    ELSE IF dim = 0 THEN {expect_float(first.P)}
    ELSE {expect_vector(first.P, dim)}

_parse_label ==
    /\ InLoop
    /\ \E tok \in token :
        /\ Dispatched(tok, KW_label)
        /\ \E r \in {expect_string(tok.P)} :
            Handled(r, [ctxs EXCEPT ![context].label = r.value], nprims)

_parse_point_size ==
    /\ InLoop
    /\ \E tok \in token :
        /\ Dispatched(tok, KW_point_size)
        /\ \E point_size \in {expect_float(tok.P)} :
            Handled(point_size,
                    [ctxs EXCEPT ![context].style =
                        SetStyle(@, "point_size", point_size.value)],
                    nprims)

_parse_plane_size ==
    /\ InLoop
    /\ \E tok \in token :
        /\ Dispatched(tok, KW_plane_size)
        /\ \E plane_size \in {expect_float(tok.P)} :
            Handled(plane_size,
                    [ctxs EXCEPT ![context].style =
                        SetStyle(@, "plane_size", plane_size.value)],
                    nprims)

_parse_clip_side ==
    /\ InLoop
    /\ \E tok \in token :
        /\ Dispatched(tok, KW_clip_side)
        /\ \E clip_side \in {expect_enum(tok.P, {KW_positive, KW_negative})} :
            Handled(clip_side,
                    [ctxs EXCEPT ![context].style =
                        SetStyle(@, "clip_side", clip_side.value)],
                    nprims)

_parse_clip_plane ==
    /\ InLoop
    /\ \E tok \in token :
        /\ Dispatched(tok, KW_clip_plane)
        /\ \E normal \in {expect_vector(tok.P, 3)} :
           \E distance \in Second(normal, 0) :
            Handled(distance,
                    add_clip_plane(Primitive("plane", normal.value, distance.value)),
                    nprims + 1)

_parse_point ==
    /\ InLoop
    /\ \E tok \in token :
        /\ Dispatched(tok, KW_point)
        /\ \E position \in {expect_vector(tok.P, 3)} :
            Handled(position,
                    add_primitive(Primitive("point", position.value, << >>)),
                    nprims + 1)

_parse_line ==
    /\ InLoop
    /\ \E tok \in token :
        /\ Dispatched(tok, KW_line)
        /\ \E from_position \in {expect_vector(tok.P, 3)} :
           \E to_position \in Second(from_position, 3) :
            Handled(to_position,
                    add_primitive(Primitive("line", from_position.value,
                                            to_position.value)),
                    nprims + 1)

_parse_vector ==
    /\ InLoop
    /\ \E tok \in token :
        /\ Dispatched(tok, KW_vector)
        /\ \E position \in {expect_vector(tok.P, 3)} :
           \E direction \in Second(position, 3) :
            Handled(direction,
                    add_primitive(Primitive("vector", position.value,
                                            direction.value)),
                    nprims + 1)

_parse_plane ==
    /\ InLoop
    /\ \E tok \in token :
        /\ Dispatched(tok, KW_plane)
        /\ \E normal \in {expect_vector(tok.P, 3)} :
           \E distance \in Second(normal, 0) :
            Handled(distance,
                    add_primitive(Primitive("plane", normal.value, distance.value)),
                    nprims + 1)

_parse_aabb ==
    /\ InLoop
    /\ \E tok \in token :
        /\ Dispatched(tok, KW_aabb)
        /\ \E aabb_min \in {expect_vector(tok.P, 3)} :
           \E aabb_max \in Second(aabb_min, 3) :
            Handled(aabb_max,
                    add_primitive(Primitive("aabb", aabb_min.value, aabb_max.value)),
                    nprims + 1)

_parse_projection ==
    /\ InLoop
    /\ \E tok \in token :
        /\ Dispatched(tok, KW_projection)
        /\ \E matrix \in {expect_vector(tok.P, 16)} :
            Handled(matrix,
                    add_primitive(Primitive("projection", matrix.value, << >>)),
                    nprims + 1)

\* input is exhausted with scopes still open: the error cites stack[0]
UnbalancedOpen ==
    /\ pc = "loads" /\ at_end(parser)
    /\ stack # << >>
    /\ pc' = "error"
    /\ err' = [Raised(error(parser, "unbalanced {")) EXCEPT
                  !.from_line = stack[1].line, !.from_col = stack[1].col]
    /\ UNCHANGED <<parser, stack, context, ctxs, nprims, LoadsFrame>>

\* context.propagate(); return context
Return ==
    /\ pc = "loads" /\ at_end(parser)
    /\ stack = << >>
    /\ ctxs' = propagate(ctxs, context, 1)
    /\ pc' = "loaded"
    /\ UNCHANGED <<parser, stack, context, nprims, err, LoadsFrame>>

NextLoads ==
    \/ NoIdent
    \/ OpenBrace
    \/ CloseBrace
    \/ UnknownPrimitive
    \/ _parse_label
    \/ _parse_point_size
    \/ _parse_plane_size
    \/ _parse_clip_side
    \/ _parse_clip_plane
    \/ _parse_point
    \/ _parse_line
    \/ _parse_vector
    \/ _parse_plane
    \/ _parse_aabb
    \/ _parse_projection
    \/ UnbalancedOpen
    \/ Return

LoadsDocs == BraceDocs \cup ScopeDocs \cup MiscDocs

InitLoads == InitOn(LoadsDocs)

SpecLoads == InitLoads /\ [][NextLoads]_vars

(***************************************************************************)
(* mathutils.Vector over the rationals: a vector is a sequence of three.   *)
(***************************************************************************)
Vec(x, y, z) == <<R(x), R(y), R(z)>>

VAdd(u, v) == [i \in 1..3 |-> RAdd(u[i], v[i])]

VSub(u, v) == [i \in 1..3 |-> RSub(u[i], v[i])]

VNeg(u) == [i \in 1..3 |-> RNeg(u[i])]

VScale(u, k) == [i \in 1..3 |-> RMul(u[i], k)]

Dot(u, v) == RAdd(RAdd(RMul(u[1], v[1]), RMul(u[2], v[2])), RMul(u[3], v[3]))

Cross(u, v) ==
    <<RSub(RMul(u[2], v[3]), RMul(u[3], v[2])),
      RSub(RMul(u[3], v[1]), RMul(u[1], v[3])),
      RSub(RMul(u[1], v[2]), RMul(u[2], v[1]))>>

\* the root of a square number; the scenes of the model have no other length
ISqrt(n) == CHOOSE r \in 0..n : r * r = n

\* Vector.length
Length(u) == Rat(ISqrt(Dot(u, u).n), ISqrt(Dot(u, u).d))

\* Vector.normalized(): the zero vector stays as it is
Normalized(u) ==
    IF Dot(u, u) = R(0) THEN u ELSE VScale(u, RDiv(R(1), Length(u)))

(***************************************************************************)
(* class BlenderCreator: the add_ methods.  A creator is the record of     *)
(* self.context, self.verts, self.edges, self.faces; next is the place in  *)
(* the loop over context.primitives.                                       *)
(***************************************************************************)
\* self.context.style.get(key, default)
StyleGet(c, key, default) ==
    IF key \in DOMAIN ctxs[c].style THEN ctxs[c].style[key] ELSE default

Extend(m, verts, edges, faces) ==
    [m EXCEPT !.verts = @ \o verts, !.edges = @ \o edges, !.faces = @ \o faces,
              !.next = @ + 1]

\* the faces or edges of a primitive, numbered from the first new vertex
From(index, tuples) ==
    [k \in 1..Len(tuples) |->
        [j \in 1..Len(tuples[k]) |-> index + tuples[k][j]]]

PointFaces == <<<<0, 1, 2>>, <<0, 2, 3>>, <<0, 3, 4>>, <<0, 4, 1>>,
                <<5, 1, 4>>, <<5, 4, 3>>, <<5, 3, 2>>, <<5, 2, 1>>>>

\* the six vertices of add_point around a position, for a point size
PointVerts(position, point_size) ==
    <<VAdd(position, <<R(0), R(0), RNeg(point_size)>>),
      VAdd(position, <<RNeg(point_size), RNeg(point_size), R(0)>>),
      VAdd(position, <<point_size, RNeg(point_size), R(0)>>),
      VAdd(position, <<point_size, point_size, R(0)>>),
      VAdd(position, <<RNeg(point_size), point_size, R(0)>>),
      VAdd(position, <<R(0), R(0), point_size>>)>>

add_point(m, position) ==
    Extend(m, PointVerts(position, StyleGet(m.context, "point_size", R(1))),
           << >>, From(Len(m.verts), PointFaces))

add_line(m, from_position, to_position) ==
    Extend(m, <<from_position, to_position>>,
           From(Len(m.verts), <<<<0, 1>>>>), << >>)

add_vector(m, position, direction) ==
    Extend(m, <<position, VAdd(position, direction)>>,
           From(Len(m.verts), <<<<0, 1>>>>), << >>)

AabbEdges == <<<<0, 1>>, <<1, 2>>, <<2, 3>>, <<3, 0>>,
               <<4, 5>>, <<5, 6>>, <<6, 7>>, <<7, 4>>,
               <<0, 4>>, <<1, 5>>, <<2, 6>>, <<3, 7>>>>

add_aabb(m, aabb_min, aabb_max) ==
    Extend(m,
           <<<<aabb_min[1], aabb_min[2], aabb_min[3]>>,
             <<aabb_max[1], aabb_min[2], aabb_min[3]>>,
             <<aabb_max[1], aabb_max[2], aabb_min[3]>>,
             <<aabb_min[1], aabb_max[2], aabb_min[3]>>,
             <<aabb_min[1], aabb_min[2], aabb_max[3]>>,
             <<aabb_max[1], aabb_min[2], aabb_max[3]>>,
             <<aabb_max[1], aabb_max[2], aabb_max[3]>>,
             <<aabb_min[1], aabb_max[2], aabb_max[3]>>>>,
           From(Len(m.verts), AabbEdges), << >>)

\* add_projection computes six planes and adds nothing to the mesh
add_projection(m, matrix) == Extend(m, << >>, << >>, << >>)

\* prev_vert + lerp * (cur_vert - prev_vert), lerp = -dist_prev / (dist_cur - dist_prev)
Lerp(prev_vert, cur_vert, dist_prev, dist_cur) ==
    VAdd(prev_vert,
         VScale(VSub(cur_vert, prev_vert),
                RDiv(RNeg(dist_prev), RSub(dist_cur, dist_prev))))

\* what one turn of the loop over verts appends to new_verts
ClipEdge(prev_vert, cur_vert, dist_prev, dist_cur) ==
    IF RLeq(R(0), dist_cur) /\ RLeq(R(0), dist_prev) THEN <<cur_vert>>
    ELSE IF RLeq(R(0), dist_cur) /\ RLess(dist_prev, R(0))
    THEN <<Lerp(prev_vert, cur_vert, dist_prev, dist_cur), cur_vert>>
    ELSE IF RLess(dist_cur, R(0)) /\ RLeq(R(0), dist_prev)
    THEN <<Lerp(prev_vert, cur_vert, dist_prev, dist_cur)>>
    ELSE << >>

\* clip_normal.dot(vert) + clip_distance
Dist(clip_normal, clip_distance, vert) == RAdd(Dot(clip_normal, vert), clip_distance)

\* the body of the loop over clip_planes, for one clip plane
ClipBy(verts, clip_normal, clip_distance) ==
    Flatten([cur_index \in 1..Len(verts) |->
        ClipEdge(verts[((cur_index - 1 + Len(verts) - 1) % Len(verts)) + 1],
                 verts[cur_index],
                 Dist(clip_normal, clip_distance,
                      verts[((cur_index - 1 + Len(verts) - 1) % Len(verts)) + 1]),
                 Dist(clip_normal, clip_distance, verts[cur_index]))])

\* _clip_face that takes every clip plane as it is written, whatever the side
RECURSIVE ClipFaceOneSide(_, _, _)
ClipFaceOneSide(verts, clip_planes, clip_side) ==
    IF clip_planes = << >> THEN verts
    ELSE ClipFaceOneSide(ClipBy(verts, Head(clip_planes).a, Head(clip_planes).b),
                         Tail(clip_planes), clip_side)

RECURSIVE _clip_face(_, _, _)
_clip_face(verts, clip_planes, clip_side) ==
    IF clip_planes = << >> THEN verts
    ELSE _clip_face(
             IF clip_side = KW_positive
             THEN ClipBy(verts, VNeg(Head(clip_planes).a), RNeg(Head(clip_planes).b))
             ELSE ClipBy(verts, Head(clip_planes).a, Head(clip_planes).b),
             Tail(clip_planes), clip_side)

\* PlaneXAxis without the second try for a normal along the Z axis
PlaneXAxisAlongZ(normal) == Normalized(Cross(normal, Vec(0, 0, 1)))

\* x_axis of add_plane, normalized
PlaneXAxis(normal) ==
    IF RLess(Dot(Cross(normal, Vec(0, 0, 1)), Cross(normal, Vec(0, 0, 1))),
             Rat(1, 1000000))
    THEN Normalized(Cross(normal, Vec(1, 0, 0)))
    ELSE Normalized(Cross(normal, Vec(0, 0, 1)))

\* the four corners around origin along the scaled axes
Quad(origin, x_axis, y_axis) ==
    <<VSub(VSub(origin, x_axis), y_axis), VSub(VAdd(origin, x_axis), y_axis),
      VAdd(VAdd(origin, x_axis), y_axis), VAdd(VSub(origin, x_axis), y_axis)>>

\* verts of add_plane before clipping
PlaneQuad(c, normal, distance) ==
    Quad(VScale(normal, RNeg(distance)),
         VScale(PlaneXAxis(normal), StyleGet(c, "plane_size", R(1000))),
         VScale(Cross(normal, PlaneXAxis(normal)),
                StyleGet(c, "plane_size", R(1000))))

\* p for p in planes if Vector(p.normal).dot(normal) < 0.999 or
\* abs(p.distance - distance) > 0.001
RECURSIVE NotSelf(_, _, _)
NotSelf(planes, normal, distance) ==
    IF planes = << >> THEN << >>
    ELSE IF \/ RLess(Dot(Head(planes).a, normal), Rat(999, 1000))
            \/ RLess(Rat(1, 1000), RAbs(RSub(Head(planes).b, distance)))
    THEN <<Head(planes)>> \o NotSelf(Tail(planes), normal, distance)
    ELSE NotSelf(Tail(planes), normal, distance)

\* clip_planes of add_plane
PlaneClips(c, normal, distance) == NotSelf(ctxs[c].clip_planes, normal, distance)

\* if verts: one face over the new vertices
AddFace(m, verts) ==
    IF verts = << >> THEN Extend(m, << >>, << >>, << >>)
    ELSE Extend(m, verts, << >>,
                <<[i \in 1..Len(verts) |-> Len(m.verts) + i - 1]>>)

add_plane(m, normal, distance) ==
    AddFace(m, _clip_face(PlaneQuad(m.context, normal, distance),
                          PlaneClips(m.context, normal, distance),
                          StyleGet(m.context, "clip_side", KW_negative)))

(***************************************************************************)
(* BlenderCreator.create: the steps of one call, and the calls it makes.   *)
(* A frame is a call: its context, the object it made, and child, the      *)
(* place in the loop over context.children.                                *)
(***************************************************************************)
Zero == Vec(0, 0, 0)

NoMesh == [context |-> 0, verts |-> << >>, edges |-> << >>, faces |-> << >>,
           next |-> 0]

CreateFrame == <<parser, ret, stack, context, ctxs, nprims, err>>

\* create(context, parent) up to the loop over the primitives
Begin(c, parent, callers) ==
    /\ objs' = Append(objs, [label |-> ctxs[c].label, parent |-> parent,
                             context |-> c, location |-> Zero,
                             verts |-> << >>, edges |-> << >>, faces |-> << >>])
    /\ frames' = Append(callers, [context |-> c, obj |-> Len(objs) + 1,
                                  child |-> 1])
    /\ mesh' = [context |-> c, verts |-> << >>, edges |-> << >>,
                faces |-> << >>, next |-> 1]
    /\ pc' = "primitives"
    /\ UNCHANGED CreateFrame

\* create(context): creator.create(context)
create == pc = "loaded" /\ Begin(context, 0, << >>)

\* primitive.create(self), for the next primitive if it is of the kind
Adding(kind) ==
    /\ pc = "primitives"
    /\ mesh.next <= Len(ctxs[mesh.context].primitives)
    /\ ctxs[mesh.context].primitives[mesh.next].kind = kind

primitive == ctxs[mesh.context].primitives[mesh.next]

Added(m) == mesh' = m /\ UNCHANGED <<CreateFrame, pc, objs, frames>>

PointCreate == Adding("point") /\ Added(add_point(mesh, primitive.a))

LineCreate == Adding("line") /\ Added(add_line(mesh, primitive.a, primitive.b))

VectorCreate == Adding("vector") /\ Added(add_vector(mesh, primitive.a, primitive.b))

PlaneCreate == Adding("plane") /\ Added(add_plane(mesh, primitive.a, primitive.b))

AABBCreate == Adding("aabb") /\ Added(add_aabb(mesh, primitive.a, primitive.b))

ProjectionCreate == Adding("projection") /\ Added(add_projection(mesh, primitive.a))

\* min or max of the i-th coordinates of the vertices
Least(verts, i) ==
    verts[CHOOSE k \in 1..Len(verts) :
              \A j \in 1..Len(verts) : RLeq(verts[k][i], verts[j][i])][i]

Most(verts, i) ==
    verts[CHOOSE k \in 1..Len(verts) :
              \A j \in 1..Len(verts) : RLeq(verts[j][i], verts[k][i])][i]

\* verts_center = (verts_min + verts_max) * 0.5
Center(verts) ==
    [i \in 1..3 |-> RMul(RAdd(Least(verts, i), Most(verts, i)), Rat(1, 2))]

\* ParentCenter with "if" for "while": the location of the parent alone
ParentCenterNear(os, search_parent) ==
    IF search_parent = 0 THEN Zero ELSE os[search_parent].location

\* the while-loop over search_parent: the locations up the chain of parents
RECURSIVE ParentCenter(_, _)
ParentCenter(os, search_parent) ==
    IF search_parent = 0 THEN Zero
    ELSE VAdd(os[search_parent].location,
              ParentCenter(os, os[search_parent].parent))

\* obj.location, for an object with vertices
Location(os, o, verts_center) ==
    IF os[o].parent # 0
    THEN VSub(verts_center, ParentCenter(os, os[o].parent))
    ELSE verts_center

\* the object after "if self.verts:" and mesh.from_pydata
Built(os, o, m) ==
    IF m.verts = << >> THEN [os[o] EXCEPT !.edges = m.edges, !.faces = m.faces]
    ELSE [os[o] EXCEPT
             !.location = Location(os, o, Center(m.verts)),
             !.verts = [k \in 1..Len(m.verts) |-> VSub(m.verts[k], Center(m.verts))],
             !.edges = m.edges,
             !.faces = m.faces]

\* create() from the centering to the del statements
Finish ==
    /\ pc = "primitives"
    /\ mesh.next > Len(ctxs[mesh.context].primitives)
    /\ objs' = [objs EXCEPT ![frames[Len(frames)].obj] =
                   Built(objs, frames[Len(frames)].obj, mesh)]
    /\ mesh' = NoMesh
    /\ pc' = "children"
    /\ UNCHANGED <<CreateFrame, frames>>

\* CreateChild that hands on its own parent: self.create(child, parent)
CreateChildUnderParent ==
    /\ pc = "children"
    /\ \E f \in {frames[Len(frames)]} :
        /\ f.child <= Len(ctxs[f.context].children)
        /\ Begin(ctxs[f.context].children[f.child], objs[f.obj].parent,
                 [frames EXCEPT ![Len(frames)].child = @ + 1])

\* for child in context.children: self.create(child, obj)
CreateChild ==
    /\ pc = "children"
    /\ \E f \in {frames[Len(frames)]} :
        /\ f.child <= Len(ctxs[f.context].children)
        /\ Begin(ctxs[f.context].children[f.child], f.obj,
                 [frames EXCEPT ![Len(frames)].child = @ + 1])

\* the loop over the children is over: the call returns
CreateReturn ==
    /\ pc = "children"
    /\ \E f \in {frames[Len(frames)]} :
        /\ f.child > Len(ctxs[f.context].children)
        /\ frames' = SubSeq(frames, 1, Len(frames) - 1)
        /\ pc' = IF Len(frames) = 1 THEN "done" ELSE "children"
        /\ UNCHANGED <<CreateFrame, objs, mesh>>

NextCreate ==
    \/ create
    \/ PointCreate
    \/ LineCreate
    \/ VectorCreate
    \/ PlaneCreate
    \/ AABBCreate
    \/ ProjectionCreate
    \/ Finish
    \/ CreateChild
    \/ CreateReturn

(***************************************************************************)
(* The scenes that are loaded and then created: create(load(...)).         *)
(***************************************************************************)
\* the scene of test_clip_planes, with texts s and d for the two numbers
CubeDoc(s, d) ==
    <<"\n", "p", "l", "a", "n", "e", "_", "s", "i", "z", "e", " ">> \o s \o <<"\n", "{", " ", "l", "a", "b", "e", "l", " ", "'", "t", "e", "s", "t", "c", "u", "b", "e", "'", "\n">>
    \o <<"c", "l", "i", "p", "_", "p", "l", "a", "n", "e", " ", "(", "-", "1", " ", "0", " ", "0", ")", " ", " ">> \o d \o <<"\n">>
    \o <<"c", "l", "i", "p", "_", "p", "l", "a", "n", "e", " ", "(", " ", "1", " ", "0", " ", "0", ")", " ", " ">> \o d \o <<"\n">>
    \o <<"c", "l", "i", "p", "_", "p", "l", "a", "n", "e", " ", "(", "0", " ", "-", "1", " ", "0", ")", " ", " ">> \o d \o <<"\n">>
    \o <<"c", "l", "i", "p", "_", "p", "l", "a", "n", "e", " ", "(", "0", " ", " ", "1", " ", "0", ")", " ", " ">> \o d \o <<"\n">>
    \o <<"c", "l", "i", "p", "_", "p", "l", "a", "n", "e", " ", "(", "0", " ", "0", " ", "-", "1", ")", " ", " ">> \o d \o <<"\n">>
    \o <<"c", "l", "i", "p", "_", "p", "l", "a", "n", "e", " ", "(", "0", " ", "0", " ", " ", "1", ")", " ", " ">> \o d \o <<"\n">>
    \o <<"p", "l", "a", "n", "e", " ", "(", "-", "1", " ", "0", " ", "0", ")", " ", " ">> \o d \o <<"\n">>
    \o <<"p", "l", "a", "n", "e", " ", "(", " ", "1", " ", "0", " ", "0", ")", " ", " ">> \o d \o <<"\n">>
    \o <<"p", "l", "a", "n", "e", " ", "(", "0", " ", "-", "1", " ", "0", ")", " ", " ">> \o d \o <<"\n">>
    \o <<"p", "l", "a", "n", "e", " ", "(", "0", " ", " ", "1", " ", "0", ")", " ", " ">> \o d \o <<"\n">>
    \o <<"p", "l", "a", "n", "e", " ", "(", "0", " ", "0", " ", "-", "1", ")", " ", " ">> \o d \o <<"\n">>
    \o <<"p", "l", "a", "n", "e", " ", "(", "0", " ", "0", " ", " ", "1", ")", " ", " ">> \o d \o <<"\n">>
    \o <<"}", "\n">>

\* the scene of test_parent_translation
DocNested ==
    <<"\n", "{", " ", "l", "a", "b", "e", "l", " ", "'", "c", "u", "b", "e", "1", "'", " ", "\n", " ", " ", "p", "o", "i", "n", "t", " ", "(", "1", "0", " ", "0", " ", "0", ")", "\n", " ", " ", "{", " ", "l", "a", "b", "e", "l", " ", "'", "c", "u", "b", "e", "2", "'", " ", "\n", " ", " ", " ", " ", "p", "o", "i", "n", "t", " ", "(", "1", "0", " ", "0", " ", "0", ")", "\n", " ", " ", " ", " ", "{", " ", "l", "a", "b", "e", "l", " ", "'", "c", "u", "b", "e", "3", "'", " ", "\n", " ", " ", " ", " ", " ", " ", "p", "o", "i", "n", "t", " ", "(", "1", "0", " ", "0", " ", "0", ")", "\n", " ", " ", " ", " ", "}", "\n", " ", " ", "}", "\n", "}", "\n">>

Numeral(i) == IF i < 10 THEN <<Digits[i + 1]>> ELSE <<Digits[(i \div 10) + 1], Digits[(i % 10) + 1]>>

CubeDocs ==
    {CubeDoc(<<"1", "0", "0">>, <<"1", "0">>)}
        \cup {CubeDoc(Numeral(s), Numeral(d)) : s \in 2..MaxSize, d \in 1..(MaxSize - 1)}

NestPieces == {
    <<"{">>,
    <<"}">>,
    <<"p", "o", "i", "n", "t", " ", "(", "1", " ", "0", " ", "0", ")", " ">>,
    <<"p", "o", "i", "n", "t", "_", "s", "i", "z", "e", " ", "2", " ", "l", "i", "n", "e", " ", "0", " ", "5", " ", "0", " ", "(", "4", " ", "1", " ", "-", "3", ")", " ">> }

\* a child without vertices between contexts that have some, and a second child
DocMixed ==
    <<"p", "o", "i", "n", "t", " ", "(", "1", " ", "0", " ", "0", ")", " ", "{", "{", " ", "p", "o", "i", "n", "t", "_", "s", "i", "z", "e", " ", "2", " ", "l", "i", "n", "e", " ", "0", " ", "5", " ", "0", " ", "(", "4", " ", "1", " ", "-", "3", ")", " ", "{", " ", "a", "a", "b", "b", " ", "-", "1", " ", "0", " ", "0", " ", "2", " ", "2", " ", "6", " ", "}", " ", "p", "o", "i", "n", "t", " ", "(", "0", " ", "0", " ", ".", "5", ")", " ", "}", "}", " ", "{", " ", "v", "e", "c", "t", "o", "r", " ", "(", "7", " ", "0", " ", "0", ")", " ", "0", " ", "2", " ", "0", " ", "p", "l", "a", "n", "e", " ", "(", "0", " ", "0", " ", "1", ")", " ", "-", "3", " ", "}">>

NestDocs ==
    {DocNested, DocMixed} \cup {Flatten(ps) : ps \in Strings(NestPieces, MaxNestLen)}

\* every statement of the language once, alone
MiscSingles == {Flatten(<<p>>) : p \in MiscPieces}

\* the clip planes of the clipped scenes: a cut along an axis, a cut that leaves
\* nothing of a quad of size 2, one through a corner of it, and an oblique one
ClipPieces == {
    <<"c", "l", "i", "p", "_", "p", "l", "a", "n", "e", " ", "(", "1", " ", "0", " ", "0", ")", " ", "1", " ">>,
    <<"c", "l", "i", "p", "_", "p", "l", "a", "n", "e", " ", "(", "-", "1", " ", "0", " ", "0", ")", " ", "-", "3", " ">>,
    <<"c", "l", "i", "p", "_", "p", "l", "a", "n", "e", " ", "(", "1", " ", "1", " ", "0", ")", " ", "-", "4", " ">>,
    <<"c", "l", "i", "p", "_", "p", "l", "a", "n", "e", " ", "(", "0", " ", "2", " ", "1", ")", " ", "1", " ">> }

PlanePieces == {
    <<"p", "l", "a", "n", "e", " ", "(", "0", " ", "0", " ", "1", ")", " ", "0", " ">>,
    <<"p", "l", "a", "n", "e", " ", "(", "3", " ", "4", " ", "0", ")", " ", "5", " ">> }

SidePieces == {
    << >>,
    <<"c", "l", "i", "p", "_", "s", "i", "d", "e", " ", "p", "o", "s", "i", "t", "i", "v", "e", " ">>,
    <<"p", "l", "a", "n", "e", "_", "s", "i", "z", "e", " ", "2", " ">>,
    <<"c", "l", "i", "p", "_", "s", "i", "d", "e", " ", "p", "o", "s", "i", "t", "i", "v", "e", " ", "p", "l", "a", "n", "e", "_", "s", "i", "z", "e", " ", "2", " ">> }

\* a style, up to MaxClips clip planes, one or two planes
ClipDocs ==
    {side \o Flatten(clips) \o Flatten(planes) :
        side \in SidePieces,
        clips \in Strings(ClipPieces, MaxClips),
        planes \in Strings(PlanePieces, 2) \ {<< >>}}

SceneDocs == CubeDocs \cup NestDocs \cup MiscSingles \cup ClipDocs

Init == InitOn(SceneDocs)

Next == NextLoads \/ NextCreate

Spec == Init /\ [][Next]_vars

(***************************************************************************)
(* Properties of the Parser methods.                                       *)
(***************************************************************************)
Newlines(s, pos) == {i \in 0..(pos - 1) : At(s, i) = "\n"}

LastNewline(s, pos) ==
    IF Newlines(s, pos) = {} THEN -1
    ELSE CHOOSE i \in Newlines(s, pos) : \A j \in Newlines(s, pos) : j <= i

\* the text that remains at the cursor
cursor(P) == Slice(P.source, P.pos, Len(P.source))

\* C8: after construction and after every call, line is one more than the
\* number of newlines in source[0:pos] and col is one more than the number
\* of characters between the last consumed newline (or the start) and pos.
C8_LineCol ==
    /\ parser.line = 1 + Cardinality(Newlines(parser.source, parser.pos))
    /\ parser.col = parser.pos - LastNewline(parser.source, parser.pos)

\* C8: the identifier of "\n\n\n#comment\nabc" has been consumed, on line 5
C8_Witness ==
    /\ parser.source = <<"\n", "\n", "\n", "#", "c", "o", "m", "m", "e", "n", "t", "\n", "a", "b", "c">>
    /\ ret.op = "expect_ident" /\ ret.res.out = "ok"
    /\ parser.pos = 15 /\ parser.line = 5 /\ parser.col = 4

\* C5 as claimed: expect_float succeeds on every text of the Float form and
\* otherwise fails with the positioned parse error, and in no other way.
C5_FloatFormAccepted ==
    ret.op = "expect_float" =>
        IF FLOAT(ret.before.source, ret.before.pos) # -1
        THEN ret.res.out = "ok"
        ELSE /\ ret.res.out = "ParserError"
             /\ ret.res.line = ret.before.line /\ ret.res.col = ret.before.col

\* C6 as claimed: on "123..456" expect_float returns 123 and leaves "..456".
C6_LeavesBothDots ==
    (/\ ret.op = "expect_float"
     /\ ret.before.source = <<"1", "2", "3", ".", ".", "4", "5", "6">>
     /\ ret.before.pos = 0)
        => /\ ret.res.out = "ok" /\ ret.res.value = R(123)
           /\ cursor(parser) = <<".", ".", "4", "5", "6">>

\* C6 amended: on "123..456" expect_float returns 123 and consumes "123."
\* with the first dot, leaving ".456" at the cursor.
C6_LeavesOneDot ==
    (/\ ret.op = "expect_float"
     /\ ret.before.source = <<"1", "2", "3", ".", ".", "4", "5", "6">>
     /\ ret.before.pos = 0)
        => /\ ret.res.out = "ok" /\ ret.res.value = R(123)
           /\ parser.pos = 4
           /\ cursor(parser) = <<".", "4", "5", "6">>

C6_Witness ==
    /\ ret.op = "expect_float"
    /\ ret.before.source = <<"1", "2", "3", ".", ".", "4", "5", "6">>
    /\ ret.before.pos = 0
    /\ ret.res.out = "ok"

\* the cursor holds dim texts of the Float form, each followed by optional
\* whitespace and comments, and then a ")" if one is asked for
RECURSIVE VectorForm(_, _, _)
VectorForm(P, dim, paren) ==
    IF dim = 0 THEN (paren => RPAREN(P.source, P.pos) # -1)
    ELSE /\ FLOAT(P.source, P.pos) # -1
         /\ VectorForm(accept(P, "FLOAT").P, dim - 1, paren)

\* C7 as claimed: expect_vector(dim) returns dim floats when the cursor has
\* dim floats (closed by ")" if opened by "("), and is a parse error if not.
C7_VectorOrParseError ==
    ret.op = "expect_vector" =>
        LET open == accept(ret.before, "LPAREN")
        IN  IF VectorForm(open.P, ret.arg, ~open.none)
            THEN ret.res.out = "ok" /\ Len(ret.res.value) = ret.arg
            ELSE ret.res.out = "ParserError"

(***************************************************************************)
(* Properties of loads().                                                  *)
(***************************************************************************)
\* the braces of a text outside its comments, each with its offset
RECURSIVE Braces(_, _)
Braces(s, p) ==
    IF ~Has(s, p) THEN << >>
    ELSE IF At(s, p) = "#" THEN Braces(s, RunEnd(s, p, "notnewline"))
    ELSE IF At(s, p) \in {"{", "}"}
    THEN <<[ch |-> At(s, p), off |-> p]>> \o Braces(s, p + 1)
    ELSE Braces(s, p + 1)

\* the offsets of the braces that are open after the braces bs, outermost
\* first; <<-1>> once a "}" came with none open
RECURSIVE OpenAfter(_, _)
OpenAfter(bs, open) ==
    IF bs = << >> \/ open = <<-1>> THEN open
    ELSE IF Head(bs).ch = "{" THEN OpenAfter(Tail(bs), Append(open, Head(bs).off))
    ELSE IF open = << >> THEN <<-1>>
    ELSE OpenAfter(Tail(bs), SubSeq(open, 1, Len(open) - 1))

Balanced(s) == OpenAfter(Braces(s, 0), << >>) = << >>

\* the nesting depth of the i-th brace of bs, when it is a "{"
NestAt(bs, i) ==
    Cardinality({j \in 1..i : bs[j].ch = "{"})
        - Cardinality({j \in 1..i : bs[j].ch = "}"})

MaxNest(bs) ==
    IF bs = << >> THEN 0
    ELSE CHOOSE d \in 0..Len(bs) :
             /\ \A i \in 1..Len(bs) : NestAt(bs, i) <= d
             /\ d = 0 \/ \E i \in 1..Len(bs) : NestAt(bs, i) = d

\* the "{" that encloses the i-th brace of bs (a "{"), as an index of bs, or 0
Encloser(bs, i) ==
    LET outer == {j \in 1..(i - 1) :
                     /\ bs[j].ch = "{"
                     /\ NestAt(bs, j) = NestAt(bs, i) - 1
                     /\ \A k \in j..i : NestAt(bs, k) >= NestAt(bs, j)}
    IN  IF outer = {} THEN 0 ELSE CHOOSE j \in outer : TRUE

\* the number of the context that the i-th brace of bs (a "{") created
CtxOf(bs, i) == 1 + Cardinality({j \in 1..i : bs[j].ch = "{"})

RECURSIVE Depth(_, _)
Depth(cs, c) == IF cs[c].parent = 0 THEN 0 ELSE 1 + Depth(cs, cs[c].parent)

\* the documents of braces, valid keyword calls, whitespace and comments
BraceOnly == parser.source \in BraceDocs \cup ScopeDocs

\* every "{" made one child of the context that was open around it
TreeIsBraces(bs) ==
    /\ Len(ctxs) = 1 + Cardinality({i \in 1..Len(bs) : bs[i].ch = "{"})
    /\ \A i \in 1..Len(bs) : bs[i].ch = "{" =>
          LET c == CtxOf(bs, i)
              up == IF Encloser(bs, i) = 0 THEN 1 ELSE CtxOf(bs, Encloser(bs, i))
          IN  /\ ctxs[c].parent = up
              /\ Cardinality({k \in 1..Len(ctxs[up].children) :
                                 ctxs[up].children[k] = c}) = 1
              /\ Depth(ctxs, c) = NestAt(bs, i)
    /\ \A c \in 1..Len(ctxs) : \A k \in 1..Len(ctxs[c].children) :
          ctxs[ctxs[c].children[k]].parent = c
    /\ \E c \in 1..Len(ctxs) : Depth(ctxs, c) = MaxNest(bs)
    /\ \A c \in 1..Len(ctxs) : Depth(ctxs, c) <= MaxNest(bs)

\* C1: on a document of braces and valid keyword calls loads returns exactly
\* when the braces are balanced, and raises ParserError otherwise; it
\* returns the root, and the tree has one child per "{", under the context
\* that was current, so that its depth is the nesting depth of the braces.
C1_BraceBalance ==
    BraceOnly =>
        /\ pc = "loaded" =>
              /\ Balanced(parser.source)
              /\ context = 1 /\ ctxs[context].parent = 0
              /\ TreeIsBraces(Braces(parser.source, 0))
        /\ pc = "error" =>
              /\ ~Balanced(parser.source)
              /\ err.out = "ParserError"
        /\ (pc = "loads" /\ at_end(parser)) =>
              (stack = << >> <=> Balanced(parser.source))

\* C1: "{{{}}}" was loaded
C1_Witness ==
    /\ parser.source = <<"{", "{", "{", "}", "}", "}">>
    /\ pc = "loaded"
    /\ Len(ctxs) = 4
    /\ Depth(ctxs, 4) = 3

\* the nearest of c and its ancestors whose own scope set the key, or 0
RECURSIVE Nearest(_, _, _)
Nearest(cs, c, key) ==
    IF c = 0 THEN 0
    ELSE IF key \in DOMAIN cs[c].style THEN c
    ELSE Nearest(cs, cs[c].parent, key)

StyleKeys == {"point_size", "plane_size", "clip_side"}

\* before holds the styles as the scopes set them, after as loads returns them
StyleInherited(before, after) ==
    \A c \in 1..Len(before) : \A key \in StyleKeys :
        IF Nearest(before, c, key) = 0
        THEN key \notin DOMAIN after[c].style
        ELSE /\ key \in DOMAIN after[c].style
             /\ after[c].style[key] = before[Nearest(before, c, key)].style[key]

\* C2: when loads returns, each context has for each style key the value its
\* own scope set, else the value of the nearest ancestor that set the key,
\* and no value if none did; wherever the keywords stand in the text.
C2_StyleInherited ==
    [][(pc = "loads" /\ pc' = "loaded") => StyleInherited(ctxs, ctxs')]_vars

\* C2: in "{{} point_size 2 ..} point_size 1 .." the inner scope has the 2 of
\* its parent, not the 1 of the root, and both keywords follow its braces
C2_Witness ==
    /\ parser.source = DocLateStyle
    /\ pc = "loaded"
    /\ ctxs[3].parent = 2
    /\ ctxs[3].style["point_size"] = R(2)
    /\ ctxs[1].style["point_size"] = R(1)

Ids(planes) == {planes[i].id : i \in 1..Len(planes)}

\* the planes of a list that have one of the ids, in the order of the list
RECURSIVE Only(_, _)
Only(planes, ids) ==
    IF planes = << >> THEN << >>
    ELSE IF Head(planes).id \in ids THEN <<Head(planes)>> \o Only(Tail(planes), ids)
    ELSE Only(Tail(planes), ids)

\* before holds the clip planes as declared, after as loads returns them
ClipAccumulated(before, after) ==
    \A c \in 1..Len(before) :
        IF before[c].parent = 0
        THEN after[c].clip_planes = before[c].clip_planes
        ELSE LET own == before[c].clip_planes
                 up == after[before[c].parent].clip_planes
                 all == after[c].clip_planes
             IN  /\ Len(all) = Len(own) + Len(up)
                 /\ Cardinality(Ids(all)) = Len(all)
                 /\ Only(all, Ids(own)) = own
                 /\ Only(all, Ids(up)) = up

\* C3: when loads returns, the root has its own clip planes, and every other
\* context has its own and those of its parent's returned list, each once,
\* each of the two groups in its order.
C3_ClipAccumulated ==
    [][(pc = "loads" /\ pc' = "loaded") => ClipAccumulated(ctxs, ctxs')]_vars

\* C3: a context two scopes deep that declared a plane and got two from its
\* parent, in their order, and one from the root
C3_Witness ==
    /\ pc = "loaded"
    /\ \E c \in 1..Len(ctxs) :
          /\ Depth(ctxs, c) = 2
          /\ Len(ctxs[c].clip_planes) = 4
          /\ ctxs[c].clip_planes[1].context = c
          /\ ctxs[c].clip_planes[2].context = ctxs[c].parent
          /\ ctxs[c].clip_planes[3].context = ctxs[c].parent
          /\ ctxs[c].clip_planes[2].id < ctxs[c].clip_planes[3].id
          /\ ctxs[c].clip_planes[4].context = 1

\* line and column of the character at an offset of a text
LineOf(s, off) == 1 + Cardinality(Newlines(s, off))

ColOf(s, off) == off - LastNewline(s, off)

\* C4 as claimed: the error for a "{" left open cites the line and column of
\* the outermost open "{" itself.
C4_CitesTheBrace ==
    (pc = "error" /\ err.message = "unbalanced {") =>
        LET open == OpenAfter(Braces(parser.source, 0), << >>)
        IN  /\ err.out = "ParserError"
            /\ err.from_line = LineOf(parser.source, open[1])
            /\ err.from_col = ColOf(parser.source, open[1])

(***************************************************************************)
(* Properties of the created objects.                                      *)
(***************************************************************************)
\* the sum of the locations of an object and of the objects above it
RECURSIVE Placement(_)
Placement(o) ==
    IF o = 0 THEN Zero ELSE VAdd(objs[o].location, Placement(objs[o].parent))

\* create is through with the mesh of the object
IsBuilt(o) == o < Len(objs) \/ (o = Len(objs) /\ pc \in {"children", "done"})

\* where the vertices of the k-th face of the object are, in absolute terms
FaceCorners(o, k) ==
    {VAdd(objs[o].verts[objs[o].faces[k][j] + 1], Placement(o)) :
        j \in 1..Len(objs[o].faces[k])}

\* the corners of the cube [-d,d]^3 on the plane normal . v + d = 0
CubeCorners(normal, d) ==
    {v \in {<<x, y, z>> : x \in {d, RNeg(d)}, y \in {d, RNeg(d)}, z \in {d, RNeg(d)}} :
        RAdd(Dot(normal, v), d) = R(0)}

\* the unclipped quad of the plane reaches s along both axes of the plane
QuadOfSize(quad, normal, s) ==
    \A k \in 1..4 : \A i \in 1..3 : normal[i] = R(0) => RAbs(quad[k][i]) = s

\* the planes the face is clipped by: all six but the one of the face itself
NeighboursOnly(clips, normal, d) ==
    /\ Len(clips) = 5
    /\ \A k \in 1..5 : clips[k].a # normal /\ clips[k].b = d
    /\ {clips[k].a : k \in 1..5} =
           {ctxs[2].clip_planes[k].a : k \in 1..6} \ {normal}

\* the child of the cube scene, for plane size s and distance d
CubeOf(s, d) ==
    /\ Len(objs[2].faces) = 6
    /\ \A k \in 1..6 :
        /\ Len(objs[2].faces[k]) = 4
        /\ FaceCorners(2, k) = CubeCorners(ctxs[2].primitives[k].a, d)
        /\ Cardinality(FaceCorners(2, k)) = 4
        /\ QuadOfSize(PlaneQuad(2, ctxs[2].primitives[k].a, d),
                      ctxs[2].primitives[k].a, s)
        /\ NeighboursOnly(PlaneClips(2, ctxs[2].primitives[k].a, d),
                          ctxs[2].primitives[k].a, d)

\* C9: in the cube scene with 0 < d < s, the object created for the child has
\* six faces, the k-th with the four corners of the cube [-d,d]^3 that lie on
\* the k-th plane; the quad it is cut from has the size s set at the root,
\* and it is clipped by the five clip planes other than its own.
C9_ClippedCube ==
    (/\ parser.source \in CubeDocs
     /\ Len(objs) = 2 /\ IsBuilt(2)
     /\ RLess(R(0), ctxs[2].primitives[1].b)
     /\ RLess(ctxs[2].primitives[1].b, ctxs[1].style["plane_size"]))
        => CubeOf(ctxs[1].style["plane_size"], ctxs[2].primitives[1].b)

\* C9: the scene of test_clip_planes is created: the first face lies in x = 10
C9_Witness ==
    /\ parser.source = CubeDoc(<<"1", "0", "0">>, <<"1", "0">>)
    /\ pc = "done" /\ Len(objs) = 2
    /\ ctxs[2].style["plane_size"] = R(100)
    /\ Len(objs[2].faces) = 6 /\ Len(objs[2].verts) = 24
    /\ FaceCorners(2, 1) = {<<R(10), y, z>> : y \in {R(10), R(-10)}, z \in {R(10), R(-10)}}

Apply(m, p) ==
    CASE p.kind = "point" -> add_point(m, p.a)
      [] p.kind = "line" -> add_line(m, p.a, p.b)
      [] p.kind = "vector" -> add_vector(m, p.a, p.b)
      [] p.kind = "plane" -> add_plane(m, p.a, p.b)
      [] p.kind = "aabb" -> add_aabb(m, p.a, p.b)
      [] p.kind = "projection" -> add_projection(m, p.a)

RECURSIVE Generate(_, _)
Generate(m, prims) ==
    IF prims = << >> THEN m ELSE Generate(Apply(m, Head(prims)), Tail(prims))

\* the vertices the primitives of a context stand for, where they were written
Authored(c) ==
    Generate([NoMesh EXCEPT !.context = c, !.next = 1], ctxs[c].primitives).verts

\* c is the middle of the box around the vertices
IsBoxCentre(c, verts) ==
    \A i \in 1..3 :
        \E a \in 1..Len(verts) :
            /\ \A k \in 1..Len(verts) : RLeq(verts[a][i], verts[k][i])
            /\ \E b \in 1..Len(verts) :
                /\ \A k \in 1..Len(verts) : RLeq(verts[k][i], verts[b][i])
                /\ RAdd(verts[a][i], verts[b][i]) = RMul(c[i], R(2))

\* the mesh of the object, moved by the sum of the locations, is what was written
FlattensTo(o, placement, authored) ==
    /\ Len(objs[o].verts) = Len(authored)
    /\ objs[o].verts # << >> =>
        /\ IsBoxCentre(placement, authored)
        /\ \A k \in 1..Len(authored) :
            VAdd(objs[o].verts[k], placement) = authored[k]

Flattens(o) == FlattensTo(o, Placement(o), Authored(objs[o].context))

\* C10: for every object whose mesh is made and has vertices, the locations of
\* the object and of all objects above it add up to the middle of the box
\* around the vertices its context wrote, and every vertex of the mesh moved
\* by that sum is the vertex as written; in the scene of three nested points
\* at (10,0,0) the sum is (10,0,0) for each of the three.
C10_NestedCentering ==
    /\ \A o \in 1..Len(objs) : IsBuilt(o) => Flattens(o)
    /\ (parser.source = DocNested /\ pc = "done") =>
           \A o \in 2..4 : Placement(o) = Vec(10, 0, 0)

\* C10: the three nested points are created, under a root without vertices;
\* the second and third object lie at their parent
C10_Witness ==
    /\ parser.source = DocNested /\ pc = "done" /\ Len(objs) = 4
    /\ objs[1].verts = << >>
    /\ objs[2].location = Vec(10, 0, 0)
    /\ objs[3].location = Zero /\ objs[4].location = Zero
    /\ objs[4].parent = 3 /\ Len(objs[4].verts) = 6

(***************************************************************************)
(* Properties of accept.                                                   *)
(***************************************************************************)
\* the character at offset i is whitespace, or stands in a comment that
\* begins at or behind offset q
Skippable(s, q, i) ==
    \/ IsSpace(At(s, i))
    \/ \E j \in q..i : At(s, j) = "#" /\ \A k \in j..i : At(s, k) # "\n"

\* the cursor is at the end, or at a character that no skip would take
AtToken(P) ==
    P.pos >= Len(P.source) \/ (~IsSpace(At(P.source, P.pos)) /\ At(P.source, P.pos) # "#")

\* accept went from before to after over the match that ends at q
Framed(before, after, q) ==
    /\ q <= after.pos
    /\ \A i \in q..(after.pos - 1) : Skippable(before.source, q, i)
    /\ AtToken(after)

\* C11: an accept that does not match returns None without raising and leaves
\* the parser as it was; an accept that matches returns the value of the match
\* and stands behind the match and the whitespace and comments that follow
\* it, and nothing else; in every state of the parser the cursor is at the
\* end of the input or at a character that is neither whitespace nor "#".
C11_AcceptFrames ==
    /\ AtToken(parser)
    /\ ret.op = "accept" =>
        /\ ret.res.out = "ok"
        /\ IF Match(ret.arg, ret.before.source, ret.before.pos) = -1
           THEN ret.res.none /\ parser = ret.before
           ELSE /\ ~ret.res.none
                /\ ret.res.value =
                       Group(ret.arg, ret.before.source, ret.before.pos,
                             Match(ret.arg, ret.before.source, ret.before.pos))
                /\ parser.source = ret.before.source
                /\ Framed(ret.before, parser,
                          Match(ret.arg, ret.before.source, ret.before.pos))

\* C11: accept took the number of "1 #x\n(" with the blank, the comment and
\* the newline behind it, and stands at the parenthesis on the second line
C11_Witness ==
    /\ parser.source = <<"1", " ", "#", "x", "\n", "(">>
    /\ ret.op = "accept" /\ ret.arg = "FLOAT" /\ ret.before.pos = 0
    /\ ret.res.value = <<"1">>
    /\ parser.pos = 5 /\ parser.line = 2 /\ parser.col = 1

(***************************************************************************)
(* Properties of the clipping of planes.                                   *)
(***************************************************************************)
\* the distance of a vertex from a clip plane, on the side that is kept
SideDist(clip_side, clip, vert) ==
    IF clip_side = KW_positive
    THEN RNeg(RAdd(Dot(clip.a, vert), clip.b))
    ELSE RAdd(Dot(clip.a, vert), clip.b)

\* the clip planes of a context that are not the plane itself
Applied(c, normal, distance) ==
    {k \in 1..Len(ctxs[c].clip_planes) :
        \/ RLess(Dot(ctxs[c].clip_planes[k].a, normal), Rat(999, 1000))
        \/ RLess(Rat(1, 1000), RAbs(RSub(ctxs[c].clip_planes[k].b, distance)))}

\* the sequence of the elements of planes with an index in ks
RECURSIVE Chosen(_, _, _)
Chosen(planes, ks, k) ==
    IF k > Len(planes) THEN << >>
    ELSE (IF k \in ks THEN <<planes[k]>> ELSE << >>) \o Chosen(planes, ks, k + 1)

\* no edge of the polygon that crosses the clip plane has the same distance
\* at both ends
Divides(verts, clip_side, clip) ==
    \A i \in 1..Len(verts) :
        \A j \in {((i + Len(verts) - 2) % Len(verts)) + 1} :
            (RLess(SideDist(clip_side, clip, verts[i]), R(0))
                 # RLess(SideDist(clip_side, clip, verts[j]), R(0)))
                => SideDist(clip_side, clip, verts[i]) # SideDist(clip_side, clip, verts[j])

\* Divides for every clip plane, on the polygon that is left when its turn comes
RECURSIVE NoZeroDivide(_, _, _)
NoZeroDivide(verts, clips, clip_side) ==
    clips = << >> \/
        /\ Divides(verts, clip_side, Head(clips))
        /\ NoZeroDivide(_clip_face(verts, <<Head(clips)>>, clip_side),
                        Tail(clips), clip_side)

\* mesh n is mesh m with the face of the plane, or with nothing, added
SafelyClipped(m, n, normal, distance, clip_side) ==
    /\ Len(n.verts) >= Len(m.verts)
    /\ SubSeq(n.verts, 1, Len(m.verts)) = m.verts
    /\ n.edges = m.edges
    /\ IF Len(n.verts) = Len(m.verts) THEN n.faces = m.faces
       ELSE /\ Len(n.verts) - Len(m.verts) >= 3
            /\ n.faces = Append(m.faces,
                   [i \in 1..(Len(n.verts) - Len(m.verts)) |-> Len(m.verts) + i - 1])
            /\ \A i \in (Len(m.verts) + 1)..Len(n.verts) :
                \A k \in Applied(m.context, normal, distance) :
                    RLeq(R(0), SideDist(clip_side, ctxs[m.context].clip_planes[k],
                                        n.verts[i]))
    /\ NoZeroDivide(PlaneQuad(m.context, normal, distance),
                    Chosen(ctxs[m.context].clip_planes,
                           Applied(m.context, normal, distance), 1),
                    clip_side)

\* C12: a step that creates a plane divides by no zero, and either adds nothing
\* to the mesh, or adds at least three vertices, all on the kept side of, or
\* on, every clip plane of the context that is not the plane itself, and one
\* face whose indices are those of the new vertices in their order; the
\* vertices, edges and faces the mesh had stay as they were.
C12_ClippingSafe ==
    [][(/\ pc = "primitives"
        /\ mesh.next <= Len(ctxs[mesh.context].primitives)
        /\ ctxs[mesh.context].primitives[mesh.next].kind = "plane"
        /\ mesh'.next = mesh.next + 1)
         => SafelyClipped(mesh, mesh',
                          ctxs[mesh.context].primitives[mesh.next].a,
                          ctxs[mesh.context].primitives[mesh.next].b,
                          IF "clip_side" \in DOMAIN ctxs[mesh.context].style
                          THEN ctxs[mesh.context].style["clip_side"]
                          ELSE KW_negative)]_vars

\* C12: with clip_side positive the plane z = 0 lost a corner to the clip
\* plane x + y = 4 and is a face of five vertices; the next plane is clipped
\* on top of it
C12_Witness ==
    /\ parser.source =
           <<"c", "l", "i", "p", "_", "s", "i", "d", "e", " ", "p", "o", "s", "i", "t", "i", "v", "e", " ", "c", "l", "i", "p", "_", "p", "l", "a", "n", "e", " ", "(", "1", " ", "1", " ", "0", ")", " ", "-", "4", " ", "p", "l", "a", "n", "e", " ", "(", "0", " ", "0", " ", "1", ")", " ", "0", " ", "p", "l", "a", "n", "e", " ", "(", "3", " ", "4", " ", "0", ")", " ", "5", " ">>
    /\ pc = "primitives" /\ mesh.next = 3
    /\ Len(mesh.faces) = 2
    /\ mesh.faces[1] = <<0, 1, 2, 3, 4>>
    /\ Len(mesh.faces[2]) >= 3 /\ mesh.faces[2][1] = 5
    /\ \E i \in 1..5 : mesh.verts[i] = <<R(1000), R(-996), R(0)>>

(***************************************************************************)
(* Properties of the order of creation.                                    *)
(***************************************************************************)
\* a context, then its children in their order, each with all below it
RECURSIVE PreOrder(_)
PreOrder(c) ==
    <<c>> \o Flatten([i \in 1..Len(ctxs[c].children) |->
                         PreOrder(ctxs[c].children[i])])

\* the i-th object is made for the i-th context of the order, under the
\* object made before it for the parent of the context
InOrder(order, i) ==
    /\ i <= Len(order)
    /\ objs[i].context = order[i]
    /\ IF ctxs[order[i]].parent = 0 THEN objs[i].parent = 0
       ELSE /\ objs[i].parent \in 1..(i - 1)
            /\ objs[objs[i].parent].context = ctxs[order[i]].parent

\* C13: the objects are created for the contexts of the tree in pre-order,
\* the children of a context in the order of their declaration and each after
\* its parent, one object for a context; the parent of an object is the object
\* of the parent context, and the object of the root has none; when create has
\* returned there is an object for every context.
C13_PreOrderCreate ==
    pc \in {"primitives", "children", "done"} =>
        /\ \A i \in 1..Len(objs) : InOrder(PreOrder(context), i)
        /\ \A i, j \in 1..Len(objs) : objs[i].context = objs[j].context => i = j
        /\ pc = "done" =>
            {objs[i].context : i \in 1..Len(objs)} = 1..Len(ctxs)

\* C13: the five contexts of the mixed scene are created, the second child of
\* the root last, after the three contexts below the first child
C13_Witness ==
    /\ parser.source = DocMixed /\ pc = "done"
    /\ ctxs[1].children = <<2, 5>> /\ ctxs[3].children = <<4>>
    /\ Len(objs) = 5
    /\ objs[4].context = 4 /\ objs[4].parent = 3
    /\ objs[5].context = 5 /\ objs[5].parent = 1

====
